---- MODULE Spec2Model ----
(***************************************************************************)
(* Model of tools/last_user_activity.py: the rate-limit check, the         *)
(* sequential paginated enumeration of organization members, the           *)
(* concurrent per-user event lookups joined by asyncio.gather, and the     *)
(* sorted report.  The network is the environment: every response is a     *)
(* nondeterministic choice.  One action is one stretch of main() between   *)
(* two awaits.                                                             *)
(***************************************************************************)
EXTENDS Integers, Sequences, FiniteSets, TLC

\* ---------------------------------------------------------------- bounds
\* Pages 1..MaxPages of an organization may carry members; the server
\* answers any later page with an empty list or an error.
MaxPages == 2

\* ------------------------------------------------------------- constants
HTTP_OK == 200

\* The configured organizations (the source lists sixteen; two are kept).
orgs == <<"ipython", "jupyter">>

\* ----------------------------------------------------- environment inputs
Users == {"u1", "u2"}

ErrorStatuses == {403}

\* resources.core.remaining as the rate-limit endpoint may report it.
Remainings == {9, 10, 100}

Member(u) == [login |-> u]

\* Non-empty member pages the server may return.
PageBodies ==
    { <<Member("u1")>>, <<Member("u2")>>, <<Member("u1"), Member("u2")>> }

\* An event carries created_at; a timestamp string is represented by the
\* instant it denotes.
Ev(t) == [created_at |-> t]

\* Public event feeds the server may return (not necessarily newest first).
EventFeeds ==
    { <<>>, <<Ev(1)>>, <<Ev(2)>>, <<Ev(1), Ev(2)>>, <<Ev(2), Ev(1)>> }

Resp(st, b) == [status |-> st, body |-> b]

NoResp == Resp(0, <<>>)

\* Responses to the request for page p of an organization's members.
MemberResponses(p) ==
    { Resp(st, <<>>) : st \in ErrorStatuses }
      \cup { Resp(HTTP_OK, <<>>) }
      \cup (IF p <= MaxPages THEN { Resp(HTTP_OK, b) : b \in PageBodies } ELSE {})

\* Responses to a user's public-events request.
EventResponses ==
    { Resp(st, <<>>) : st \in ErrorStatuses }
      \cup { Resp(HTTP_OK, f) : f \in EventFeeds }

RateResponses ==
    { [status |-> st, remaining |-> 0] : st \in ErrorStatuses }
      \cup { [status |-> HTTP_OK, remaining |-> r] : r \in Remainings }

\* Python's None; a datetime t is <<t>> (always truthy).
None == <<>>

\* ------------------------------------------------------------------ state
VARIABLES
    pc,              \* position of main()
    rate_resp,       \* the rate-limit response, once received
    orgIdx,          \* index in orgs of the organization being enumerated
    page,            \* get_org_members: the page about to be requested
    members,         \* get_org_members: members collected so far
    all_members,     \* dict login -> list of orgs, in insertion order
    tasks,           \* list of usernames, one lookup each
    pending,         \* indices of tasks whose lookup is in flight
    results,         \* task index -> value returned by get_user_activity
    completions,     \* task indices in the order the lookups completed
    user_activities, \* (username, last_activity, orgs) triples
    out,             \* lines printed
    requests,        \* history: every request issued, in order
    served,          \* history: per org, the member responses received
    returned,        \* history: value get_org_members returned, per org
    ev_resp          \* history: per user, the events response received

vars == << pc, rate_resp, orgIdx, page, members, all_members, tasks, pending,
           results, completions, user_activities, out, requests, served,
           returned, ev_resp >>

Req(kind, org, p, user) == [kind |-> kind, org |-> org, page |-> p, user |-> user]

Line(kind, username, val, user_orgs) ==
    [kind |-> kind, username |-> username, last_activity |-> val,
     user_orgs |-> user_orgs]

\* ---------------------------------------------------------- pure helpers
\* main, the abort decision of the rate-limit check.
RateCheckAborts_Low(r) == r.status = HTTP_OK /\ r.remaining < 5

RateCheckAborts_FailClosed(r) == r.status # HTTP_OK \/ r.remaining < 10

RateCheckAborts(r) == r.status = HTTP_OK /\ r.remaining < 10

\* The lines the rate-limit check prints.
RateLines(r) ==
    IF r.status = HTTP_OK
    THEN << Line("rate_remaining", "", r.remaining, <<>>),
            Line("rate_resets", "", 0, <<>>) >>
         \o (IF r.remaining < 100
             THEN << Line("warning", "", r.remaining, <<>>) >>
             ELSE <<>>)
         \o (IF r.remaining < 10
             THEN << Line("abort", "", 0, <<>>) >>
             ELSE <<>>)
    ELSE <<>>

\* One iteration of the loop of get_org_members on response r.
PageStep_Prepend(ms, r) ==
    IF r.status # HTTP_OK THEN [done |-> TRUE, members |-> ms]
    ELSE IF r.body = <<>> THEN [done |-> TRUE, members |-> ms]
    ELSE [done |-> FALSE, members |-> r.body \o ms]

PageStep_DropOnError(ms, r) ==
    IF r.status # HTTP_OK THEN [done |-> TRUE, members |-> <<>>]
    ELSE IF r.body = <<>> THEN [done |-> TRUE, members |-> ms]
    ELSE [done |-> FALSE, members |-> ms \o r.body]

PageStep(ms, r) ==
    IF r.status # HTTP_OK THEN [done |-> TRUE, members |-> ms]
    ELSE IF r.body = <<>> THEN [done |-> TRUE, members |-> ms]
    ELSE [done |-> FALSE, members |-> ms \o r.body]

\* The dict all_members as a sequence of entries in insertion order.
Keys(am) == [i \in 1..Len(am) |-> am[i].login]

HasKey(am, u) == \E i \in 1..Len(am) : am[i].login = u

OrgsOf(am, u) == am[CHOOSE i \in 1..Len(am) : am[i].login = u].orgs

\* if login not in all_members: all_members[login] = []
\* all_members[login].append(org)
AddMember(am, u, org) ==
    LET am1 == IF HasKey(am, u) THEN am
               ELSE Append(am, [login |-> u, orgs |-> <<>>])
    IN  [i \in 1..Len(am1) |->
            IF am1[i].login = u
            THEN [am1[i] EXCEPT !.orgs = Append(@, org)]
            ELSE am1[i]]

RECURSIVE MergeMembers(_, _, _)
MergeMembers(am, ms, org) ==
    IF ms = <<>> THEN am
    ELSE MergeMembers(AddMember(am, Head(ms).login, org), Tail(ms), org)

\* The for-loop over orgs ends after the last configured organization.
LastOrg_First(i) == i >= 1

LastOrg(i) == i = Len(orgs)

\* get_user_activity, given the response to its request.
get_user_activity_Max(r) ==
    IF r.status = HTTP_OK /\ r.body # <<>>
    THEN << CHOOSE t \in { r.body[i].created_at : i \in 1..Len(r.body) } :
              \A j \in 1..Len(r.body) : r.body[j].created_at <= t >>
    ELSE None

get_user_activity_NeedsTwo(r) ==
    IF r.status = HTTP_OK /\ Len(r.body) > 1
    THEN << r.body[1].created_at >>
    ELSE None

get_user_activity(r) ==
    IF r.status = HTTP_OK /\ r.body # <<>>
    THEN << r.body[1].created_at >>
    ELSE None

\* asyncio.gather: the results in the order the awaitables were passed,
\* whatever the order in which they completed.
GatherResults_CompletionOrder(res, order) ==
    [i \in 1..Len(order) |-> res[order[i]]]

GatherResults(res, order) == [i \in 1..Len(order) |-> res[i]]

\* for (username, _), last_activity in zip(tasks, results):
\*     if last_activity: user_activities.append(...)
RECURSIVE Collect(_, _, _, _)
Collect(ts, res, am, i) ==
    IF i > Len(ts) THEN <<>>
    ELSE (IF res[i] # None
          THEN << [username |-> ts[i], last_activity |-> res[i][1],
                   user_orgs |-> OrgsOf(am, ts[i])] >>
          ELSE <<>>)
         \o Collect(ts, res, am, i + 1)

\* sorted(..., key=lambda x: x[1], reverse=True): stable, descending.
RECURSIVE InsertDesc(_, _)
InsertDesc(s, x) ==
    IF s = <<>> THEN << x >>
    ELSE IF Head(s).last_activity >= x.last_activity
         THEN << Head(s) >> \o InsertDesc(Tail(s), x)
         ELSE << x >> \o s

RECURSIVE InsertAsc(_, _)
InsertAsc(s, x) ==
    IF s = <<>> THEN << x >>
    ELSE IF Head(s).last_activity <= x.last_activity
         THEN << Head(s) >> \o InsertAsc(Tail(s), x)
         ELSE << x >> \o s

RECURSIVE sorted_asc(_)
sorted_asc(s) ==
    IF s = <<>> THEN <<>>
    ELSE InsertAsc(sorted_asc(SubSeq(s, 1, Len(s) - 1)), s[Len(s)])

RECURSIVE sorted_desc(_)
sorted_desc(s) ==
    IF s = <<>> THEN <<>>
    ELSE InsertDesc(sorted_desc(SubSeq(s, 1, Len(s) - 1)), s[Len(s)])

UserLines(acts) ==
    [i \in 1..Len(acts) |->
        Line("user", acts[i].username, acts[i].last_activity, acts[i].user_orgs)]

\* ------------------------------------------------------------------- Init
Init ==
    /\ pc = "rate_limit"
    /\ rate_resp = [status |-> 0, remaining |-> 0]
    /\ orgIdx = 1
    /\ page = 1
    /\ members = <<>>
    /\ all_members = <<>>
    /\ tasks = <<>>
    /\ pending = {}
    /\ results = <<>>
    /\ completions = <<>>
    /\ user_activities = <<>>
    /\ out = <<>>
    /\ requests = <<>>
    /\ served = [i \in 1..Len(orgs) |-> <<>>]
    /\ returned = <<>>
    /\ ev_resp = [u \in Users |-> NoResp]

\* ---------------------------------------------------------------- actions
\* main: the rate-limit request and the decision taken on its response.
RateLimitCheck ==
    /\ pc = "rate_limit"
    /\ \E r \in RateResponses :
         /\ rate_resp' = r
         /\ requests' = Append(requests, Req("rate_limit", "", 0, ""))
         /\ out' = out \o RateLines(r)
         /\ pc' = IF RateCheckAborts(r) THEN "aborted" ELSE "members"
    /\ UNCHANGED << orgIdx, page, members, all_members, tasks, pending, results,
                    completions, user_activities, served, returned, ev_resp >>

\* get_org_members: one page request of the current organization; when the
\* loop breaks, the return to main, the merge into all_members and either the
\* next organization or the construction of the task list.
MembersPage ==
    /\ pc = "members"
    /\ \E r \in MemberResponses(page) :
         LET step == PageStep(members, r) IN
         /\ requests' = Append(requests, Req("members", orgs[orgIdx], page, ""))
         /\ served' = [served EXCEPT ![orgIdx] = Append(@, r)]
         /\ out' = IF r.status # HTTP_OK
                   THEN Append(out, Line("error", orgs[orgIdx], r.status, <<>>))
                   ELSE out
         /\ IF ~step.done
            THEN /\ members' = step.members
                 /\ page' = page + 1
                 /\ UNCHANGED << pc, orgIdx, all_members, tasks, returned >>
            ELSE LET am == MergeMembers(all_members, step.members, orgs[orgIdx]) IN
                 /\ returned' = Append(returned, step.members)
                 /\ all_members' = am
                 /\ members' = <<>>
                 /\ page' = 1
                 /\ IF LastOrg(orgIdx)
                    THEN /\ pc' = "launch"
                         /\ tasks' = Keys(am)
                         /\ UNCHANGED orgIdx
                    ELSE /\ orgIdx' = orgIdx + 1
                         /\ UNCHANGED << pc, tasks >>
    /\ UNCHANGED << rate_resp, pending, results, completions, user_activities,
                    ev_resp >>

\* main: await asyncio.gather(...): every lookup is started and issues its
\* request.
Gather ==
    /\ pc = "launch"
    /\ pc' = "gather"
    /\ pending' = 1..Len(tasks)
    /\ results' = [i \in 1..Len(tasks) |-> None]
    /\ requests' = requests \o [i \in 1..Len(tasks) |-> Req("events", "", 0, tasks[i])]
    /\ UNCHANGED << rate_resp, orgIdx, page, members, all_members, tasks,
                    completions, user_activities, out, served, returned, ev_resp >>

\* get_user_activity: the response of one lookup arrives; lookups complete in
\* any order.
CompleteLookup ==
    /\ pc = "gather"
    /\ \E i \in pending : \E r \in EventResponses :
         /\ pending' = pending \ {i}
         /\ results' = [results EXCEPT ![i] = get_user_activity(r)]
         /\ completions' = Append(completions, i)
         /\ ev_resp' = [ev_resp EXCEPT ![tasks[i]] = r]
    /\ UNCHANGED << pc, rate_resp, orgIdx, page, members, all_members, tasks,
                    user_activities, out, requests, served, returned >>

\* main: gather returns once every lookup is done; collect, sort, print.
Report ==
    /\ pc = "gather"
    /\ pending = {}
    /\ LET res  == GatherResults(results, completions)
           acts == Collect(tasks, res, all_members, 1)
       IN  /\ user_activities' = acts
           /\ out' = out \o UserLines(sorted_desc(acts))
    /\ pc' = "done"
    /\ UNCHANGED << rate_resp, orgIdx, page, members, all_members, tasks, pending,
                    results, completions, requests, served, returned, ev_resp >>

Next ==
    \/ RateLimitCheck
    \/ MembersPage
    \/ Gather
    \/ CompleteLookup
    \/ Report

Spec == Init /\ [][Next]_vars

\* ------------------------------------------------- history projections
MemberReqs(i) ==
    SelectSeq(requests, LAMBDA q : q.kind = "members" /\ q.org = orgs[i])

EventReqs == SelectSeq(requests, LAMBDA q : q.kind = "events")

EventReqsOf(u) ==
    SelectSeq(requests, LAMBDA q : q.kind = "events" /\ q.user = u)

UserLinesOut == SelectSeq(out, LAMBDA l : l.kind = "user")

LinesOf(u) == SelectSeq(out, LAMBDA l : l.kind = "user" /\ l.username = u)

Finished(i) == i <= Len(returned)

AllOK(i) == \A k \in 1..Len(served[i]) : served[i][k].status = HTTP_OK

RECURSIVE ConcatBodies(_)
ConcatBodies(rs) ==
    IF rs = <<>> THEN <<>> ELSE Head(rs).body \o ConcatBodies(Tail(rs))

\* Username u appeared on a page returned for organization i.
Appeared(u, i) ==
    \E k \in 1..Len(served[i]) :
        /\ served[i][k].status = HTTP_OK
        /\ \E j \in 1..Len(served[i][k].body) : served[i][k].body[j].login = u

Range(s) == { s[i] : i \in 1..Len(s) }

EventsOK(u) == ev_resp[u].status = HTTP_OK /\ ev_resp[u].body # <<>>

\* ----------------------------------------------------------------- claims
\* C1: once the rate-limit endpoint has answered 200 with remaining < 10, the
\* run is aborted: the only request ever issued is the rate-limit request (no
\* member request, no events request) and no user line is printed.
C1_AbortOnLowQuota ==
    (rate_resp.status = HTTP_OK /\ rate_resp.remaining < 10) =>
        /\ pc = "aborted"
        /\ \A k \in 1..Len(requests) : requests[k].kind = "rate_limit"
        /\ UserLinesOut = <<>>

C1_Witness ==
    /\ pc = "aborted"
    /\ rate_resp.status = HTTP_OK
    /\ rate_resp.remaining = 9
    /\ Len(requests) = 1

\* C2 (as claimed): after every organization is enumerated, each username has
\* a single entry, present exactly when it appeared on some returned page, and
\* its organization list holds exactly the organizations on whose pages it
\* appeared, each at most once.
C2_MappingIsDeduplicatedUnion ==
    (Len(returned) = Len(orgs)) =>
        \A u \in Users :
            /\ Cardinality({ i \in 1..Len(all_members) : all_members[i].login = u }) <= 1
            /\ HasKey(all_members, u) <=> (\E i \in 1..Len(orgs) : Appeared(u, i))
            /\ HasKey(all_members, u) =>
                 /\ Range(OrgsOf(all_members, u))
                      = { orgs[i] : i \in { j \in 1..Len(orgs) : Appeared(u, j) } }
                 /\ Len(OrgsOf(all_members, u))
                      = Cardinality(Range(OrgsOf(all_members, u)))

\* C3: for an organization whose page requests all succeed, the pages
\* requested are 1, 2, 3, ... in order, no page before the last one received
\* is empty (nothing is requested after the first empty page), and once
\* get_org_members has returned, the last page is the empty one and the value
\* returned is the concatenation, in page order, of the pages before it.
C3_PaginationUntilEmptyPage ==
    \A i \in 1..Len(orgs) :
        AllOK(i) =>
            /\ Len(MemberReqs(i)) = Len(served[i])
            /\ \A k \in 1..Len(MemberReqs(i)) : MemberReqs(i)[k].page = k
            /\ \A k \in 1..(Len(served[i]) - 1) : served[i][k].body # <<>>
            /\ Finished(i) =>
                 /\ served[i] # <<>>
                 /\ served[i][Len(served[i])].body = <<>>
                 /\ returned[i]
                      = ConcatBodies(SubSeq(served[i], 1, Len(served[i]) - 1))

C3_Witness ==
    \E i \in 1..Len(orgs) :
        /\ Finished(i)
        /\ AllOK(i)
        /\ Len(served[i]) = 3
        /\ Len(returned[i]) >= 2
        /\ returned[i][1] # returned[i][Len(returned[i])]

\* C4: when page k of an organization answers with a non-success status, k
\* is the last page requested for it, get_org_members returns exactly the
\* members of pages 1..k-1, those members are recorded in the mapping under
\* that organization, the run is not aborted, and the next configured
\* organization is enumerated.
C4_PartialResultOnError ==
    \A i \in 1..Len(orgs) :
        \A k \in 1..Len(served[i]) :
            served[i][k].status # HTTP_OK =>
                /\ k = Len(served[i])
                /\ Len(MemberReqs(i)) = k
                /\ Finished(i)
                /\ returned[i] = ConcatBodies(SubSeq(served[i], 1, k - 1))
                /\ \A j \in 1..Len(returned[i]) :
                     /\ HasKey(all_members, returned[i][j].login)
                     /\ orgs[i] \in Range(OrgsOf(all_members, returned[i][j].login))
                /\ pc \in {"members", "launch", "gather", "done"}
                /\ i < Len(orgs) =>
                     \/ pc = "members" /\ orgIdx = i + 1
                     \/ \E q \in 1..Len(MemberReqs(i + 1)) :
                            MemberReqs(i + 1)[q].page = 1

C4_Witness ==
    /\ Len(returned) = Len(orgs)
    /\ Len(served[1]) >= 2
    /\ served[1][Len(served[1])].status # HTTP_OK
    /\ returned[1] # <<>>
    /\ Len(served[2]) >= 2

\* C5: at the end of the run the report holds exactly one line for each
\* enumerated username whose events request answered 200 with a non-empty
\* list, and no line for any other username.
C5_ReportHasExactlyActiveUsers ==
    pc = "done" =>
        \A u \in Users :
            Len(LinesOf(u))
              = IF HasKey(all_members, u) /\ EventsOK(u) THEN 1 ELSE 0

C5_Witness ==
    /\ pc = "done"
    /\ Len(tasks) = 2
    /\ \E u \in Users : ev_resp[u].status # HTTP_OK
    /\ \E u \in Users : ev_resp[u] = Resp(HTTP_OK, <<>>)
    /\ UserLinesOut = <<>>
    /\ Len(returned) = Len(orgs)

\* C6: for every user whose events request answered 200 with one or more
\* events, the timestamp returned by the lookup, recorded in user_activities
\* and printed is the created_at of the first event of the list.
C6_FirstEventTimestamp ==
    \A u \in Users :
        EventsOK(u) =>
            /\ \A i \in 1..Len(tasks) :
                 (tasks[i] = u /\ i \notin pending) =>
                     results[i] = << ev_resp[u].body[1].created_at >>
            /\ \A i \in 1..Len(user_activities) :
                 user_activities[i].username = u =>
                     user_activities[i].last_activity = ev_resp[u].body[1].created_at
            /\ \A i \in 1..Len(LinesOf(u)) :
                 LinesOf(u)[i].last_activity = ev_resp[u].body[1].created_at

C6_Witness ==
    /\ pc = "done"
    /\ \E u \in Users :
         /\ ev_resp[u] = Resp(HTTP_OK, << Ev(1), Ev(2) >>)
         /\ Len(LinesOf(u)) = 1
         /\ LinesOf(u)[1].last_activity = 1

\* C7: the printed user lines are non-increasing by activity timestamp.
C7_ReportSortedDescending ==
    \A i \in 1..Len(UserLinesOut) : \A j \in 1..Len(UserLinesOut) :
        i < j => UserLinesOut[i].last_activity >= UserLinesOut[j].last_activity

C7_Witness ==
    /\ pc = "done"
    /\ Len(user_activities) = 2
    /\ user_activities[1].last_activity < user_activities[2].last_activity
    /\ Len(UserLinesOut) = 2
    /\ UserLinesOut[1].username = user_activities[2].username

\* C8: when the rate-limit request answers with a non-success status, the
\* run is never aborted and prints neither warning nor abort line, and a
\* finished run has requested page 1 of every configured organization and
\* issued one events request for every username of the mapping.
C8_FailOpenOnRateCheckError ==
    rate_resp.status \in ErrorStatuses =>
        /\ pc # "aborted"
        /\ \A k \in 1..Len(out) : out[k].kind \notin {"warning", "abort"}
        /\ pc = "done" =>
             /\ \A i \in 1..Len(orgs) :
                  /\ MemberReqs(i) # <<>>
                  /\ MemberReqs(i)[1].page = 1
             /\ \A k \in 1..Len(all_members) :
                  Len(EventReqsOf(all_members[k].login)) = 1

C8_Witness ==
    /\ rate_resp.status \in ErrorStatuses
    /\ pc = "done"
    /\ Len(UserLinesOut) = 2

\* C9: an events request exists only when every configured organization has
\* been enumerated to an empty page or an error; organizations are enumerated
\* one at a time in configured order (no request for an organization before
\* all earlier ones have returned, none after it has returned); and from the
\* first events request on the member mapping never changes.
EnumerationComplete ==
    /\ Len(returned) = Len(orgs)
    /\ \A i \in 1..Len(orgs) :
         /\ served[i] # <<>>
         /\ LET last == served[i][Len(served[i])]
            IN  last.status # HTTP_OK \/ last.body = <<>>

SequentialEnumeration ==
    /\ \A i \in 1..Len(orgs) :
         (MemberReqs(i) # <<>>) => \A j \in 1..(i - 1) : Finished(j)
    /\ \A a \in 1..Len(requests) : \A b \in 1..Len(requests) :
         (a < b /\ requests[a].kind = "members" /\ requests[b].kind = "members") =>
            \E i \in 1..Len(orgs) : \E j \in 1..Len(orgs) :
                /\ i <= j
                /\ requests[a].org = orgs[i]
                /\ requests[b].org = orgs[j]

C9_EnumerationBeforeFetch ==
    /\ []((EventReqs # <<>>) => EnumerationComplete)
    /\ []SequentialEnumeration
    /\ [][(EventReqs # <<>>) => (all_members' = all_members)]_vars
    /\ [][(all_members' # all_members) => (EventReqs' = <<>>)]_vars

C9_Witness ==
    /\ pc = "done"
    /\ Len(EventReqs) = 2
    /\ \A i \in 1..Len(orgs) : Len(served[i]) >= 2

\* C10: whatever the order in which the lookups complete, nothing is
\* collected or printed before every lookup of the batch has completed, and
\* each printed line pairs a username with the timestamp its own lookup
\* returned and with its own organization list.
C10_ResultsAttributedToOwnUser ==
    /\ (user_activities # <<>> \/ UserLinesOut # <<>>) =>
          /\ pending = {}
          /\ Len(completions) = Len(tasks)
    /\ \A k \in 1..Len(UserLinesOut) :
          LET l == UserLinesOut[k] IN
          /\ HasKey(all_members, l.username)
          /\ get_user_activity(ev_resp[l.username]) = << l.last_activity >>
          /\ l.user_orgs = OrgsOf(all_members, l.username)

C10_Witness ==
    /\ pc = "done"
    /\ completions = << 2, 1 >>
    /\ Len(UserLinesOut) = 2
    /\ UserLinesOut[1].last_activity # UserLinesOut[2].last_activity
    /\ UserLinesOut[1].user_orgs # UserLinesOut[2].user_orgs

====
